---- MODULE Spec2Model ----
(***************************************************************************)
(* Bond Assessment Tool (src/unnamed/part_001): the bond-math functions    *)
(* priceBond, macaulayDuration, modifiedDuration, yieldToWorstApprox and   *)
(* the BondAssessmentTool component's state, setters and memoized          *)
(* recompute.                                                              *)
(*                                                                         *)
(* Numbers.  The program computes in IEEE-754 doubles.  Here               *)
(*   - a fraction is a pair [n, d] of unbounded naturals (sequences of     *)
(*     12-bit limbs, least significant first), so sums, quotients and      *)
(*     powers are exact;                                                   *)
(*   - a yield y is carried as its growth factor 1 + y, which is positive  *)
(*     for every yield the program handles (y >= -0.99);                   *)
(*   - the bisection bracket of yieldToWorstApprox is carried as doubles:  *)
(*     lo, hi and mid are multiples of 2^-120 that have at most 53         *)
(*     significant bits, and (lo + hi) / 2 and 1 + r are rounded to        *)
(*     nearest-even as the hardware rounds them (RoundDouble).             *)
(***************************************************************************)
EXTENDS Integers, Sequences, FiniteSets, TLC

Max(a, b) == IF a >= b THEN a ELSE b
Min(a, b) == IF a <= b THEN a ELSE b

(***************************************************************************)
(* Unbounded naturals.  The evaluator computes a value where it is first   *)
(* used; a test that is always true, such as IF Known(h) THEN ..., has  *)
(* it computed before the evaluation descends further.                     *)
(***************************************************************************)
LimbBits == 12
Base == 4096

\* the sequence with the elements of f, each computed once
Tup(f) == SubSeq(f, 1, Len(f))

\* true of every natural; used to have an operand computed before it is used
Known(a) == Len(a) >= 0

Limb(a, i) == IF i >= 1 /\ i <= Len(a) THEN a[i] ELSE 0

\* The recursions below split their range in halves, so that their depth is
\* logarithmic in the number of limbs.

RECURSIVE TopLimb(_, _, _)
\* the highest index in l..r of a nonzero limb, or 0
TopLimb(a, l, r) ==
  IF l > r THEN 0
  ELSE IF l = r THEN (IF a[l] # 0 THEN l ELSE 0)
  ELSE LET m == (l + r) \div 2
           up == TopLimb(a, m + 1, r)
       IN  IF up # 0 THEN up ELSE TopLimb(a, l, m)

Norm(a) ==
  IF Len(a) = 0 \/ a[Len(a)] # 0 THEN a
  ELSE SubSeq(a, 1, TopLimb(a, 1, Len(a)))

RECURSIVE CarryOut(_, _)
\* the carry (0 or 1) out of limb i, for limbs below 2 * Base - 1
CarryOut(raw, i) ==
  IF i < 1 \/ raw[i] < Base - 1 THEN 0
  ELSE IF raw[i] >= Base THEN 1
  ELSE CarryOut(raw, i - 1)

\* each limb reduced below Base, its excess added to the next limb
CarryPass(raw) ==
  Tup([i \in 1..(Len(raw) + 1) |-> (Limb(raw, i) % Base) + (Limb(raw, i - 1) \div Base)])

\* the natural whose limbs, before carrying, are raw (each below 2 * Base - 1)
CarryOnce(raw) ==
  Norm(Tup([i \in 1..(Len(raw) + 1) |-> (Limb(raw, i) + CarryOut(raw, i - 1)) % Base]))

\* the natural whose limbs, before carrying, are raw (each below 2^30)
Carry(raw) == CarryOnce(CarryPass(CarryPass(raw)))

BigOf(n) == Carry(<<n>>)

BigAdd(a, b) ==
  IF Known(a) /\ Known(b)
  THEN CarryOnce(Tup([i \in 1..Max(Len(a), Len(b)) |-> Limb(a, i) + Limb(b, i)]))
  ELSE << >>

RECURSIVE BorrowOut(_, _, _)
\* the borrow (0 or 1) out of limb i of a - b
BorrowOut(a, b, i) ==
  IF i < 1 \/ a[i] > Limb(b, i) THEN 0
  ELSE IF a[i] < Limb(b, i) THEN 1
  ELSE BorrowOut(a, b, i - 1)

\* a - b, for a >= b
BigSub(a, b) ==
  IF Known(a) /\ Known(b)
  THEN Norm(Tup([i \in 1..Len(a) |->
                   (a[i] - Limb(b, i) - BorrowOut(a, b, i - 1) + Base) % Base]))
  ELSE << >>

RECURSIVE CmpRange(_, _, _, _)
CmpRange(a, b, l, r) ==
  IF l = r THEN (IF a[l] > b[l] THEN 1 ELSE IF a[l] < b[l] THEN -1 ELSE 0)
  ELSE LET m == (l + r) \div 2
           up == CmpRange(a, b, m + 1, r)
       IN  IF up # 0 THEN up ELSE CmpRange(a, b, l, m)

\* -1, 0, 1 as a < b, a = b, a > b
BigCmp(a, b) ==
  IF Len(a) > Len(b) THEN 1
  ELSE IF Len(a) < Len(b) THEN -1
  ELSE IF Len(a) = 0 THEN 0
  ELSE CmpRange(a, b, 1, Len(a))

BigLess(a, b) == BigCmp(a, b) = -1
BigLeq(a, b) == BigCmp(a, b) <= 0

RECURSIVE ConvSum(_, _, _, _, _)
\* sum for i = l..r of a[i] * b[k + 1 - i]
ConvSum(a, b, k, l, r) ==
  IF l = r THEN a[l] * b[k + 1 - l]
  ELSE LET m == (l + r) \div 2
       IN  ConvSum(a, b, k, l, m) + ConvSum(a, b, k, m + 1, r)

\* the shorter factor has at most 60 limbs, so that a column sum stays below 2^30
BigMul(a, b) ==
  IF Len(a) = 0 \/ Len(b) = 0 \/ ~Known(a) THEN << >>
  ELSE Carry(Tup([k \in 1..(Len(a) + Len(b) - 1) |->
                    ConvSum(a, b, k, Max(1, k + 1 - Len(b)), Min(k, Len(a)))]))

RECURSIVE BigPow(_, _)
BigPow(a, k) ==
  IF k = 0 THEN <<1>>
  ELSE IF k = 1 THEN a
  ELSE LET h == BigPow(a, k \div 2)
       IN  IF Known(h)
           THEN LET sq == BigMul(h, h)
                IN  IF k % 2 = 0 THEN sq ELSE BigMul(sq, a)
           ELSE h

RECURSIVE DivFrom(_, _, _, _)
DivFrom(a, s, i, rem) ==
  IF i = 0 THEN << >>
  ELSE LET cur == rem * Base + a[i]
       IN  DivFrom(a, s, i - 1, cur % s) \o <<cur \div s>>

\* floor(a / s) for a small divisor 0 < s < 2^18
BigDivSmall(a, s) == Norm(DivFrom(a, s, Len(a), 0))

RECURSIVE BitsOf(_)
BitsOf(x) == IF x = 0 THEN 0 ELSE 1 + BitsOf(x \div 2)

BitLen(a) == IF Len(a) = 0 THEN 0 ELSE LimbBits * (Len(a) - 1) + BitsOf(a[Len(a)])

\* floor(a / 2^s)
ShiftRight(a, s) ==
  LET q == s \div LimbBits
      r == s % LimbBits
      n == Len(a) - q
  IN  IF n <= 0 THEN << >>
      ELSE Norm(Tup([i \in 1..n |->
                   (a[i + q] \div 2^r) + (Limb(a, i + q + 1) % 2^r) * 2^(LimbBits - r)]))

\* a * 2^s
ShiftLeft(a, s) ==
  LET q == s \div LimbBits
      r == s % LimbBits
  IN  IF Len(a) = 0 THEN << >>
      ELSE Norm(Tup([i \in 1..(Len(a) + q + 1) |->
                   (Limb(a, i - q) % 2^(LimbBits - r)) * 2^r
                   + (Limb(a, i - q - 1) \div 2^(LimbBits - r))]))

\* bit i of a (bit 0 is the least significant)
Bit(a, i) == (Limb(a, i \div LimbBits + 1) \div 2^(i % LimbBits)) % 2

\* whether some bit of a below bit i is set
AnyBitBelow(a, i) ==
  \/ Limb(a, i \div LimbBits + 1) % 2^(i % LimbBits) # 0
  \/ \E j \in 1..Min(Len(a), i \div LimbBits) : a[j] # 0

(***************************************************************************)
(* IEEE-754 binary64 rounding of a positive magnitude: keep 53 significant *)
(* bits, round to nearest, ties to even.                                   *)
(***************************************************************************)
MantissaBits == 53

\* x with its s lowest bits cleared
ClearLow(x, s) ==
  LET q == s \div LimbBits
      r == s % LimbBits
  IN  Tup([i \in 1..Len(x) |->
             IF i <= q THEN 0 ELSE IF i = q + 1 THEN x[i] - (x[i] % (2^r)) ELSE x[i]])

RoundDouble(x) ==
  LET s == BitLen(x) - MantissaBits
  IN  IF s <= 0 \/ ~Known(x) THEN x
      ELSE LET up == Bit(x, s - 1) = 1 /\ (AnyBitBelow(x, s - 1) \/ Bit(x, s) = 1)
           IN  IF up THEN BigAdd(ClearLow(x, s), ShiftLeft(<<1>>, s))
               ELSE ClearLow(x, s)

(***************************************************************************)
(* Exact fractions n / d (d > 0) over the unbounded naturals.              *)
(***************************************************************************)
Rat(n, d) == [n |-> n, d |-> d]
RatOf(a, b) == Rat(BigOf(a), BigOf(b))

RatLess(a, b) == BigLess(BigMul(a.n, b.d), BigMul(b.n, a.d))
RatLeq(a, b) == BigLeq(BigMul(a.n, b.d), BigMul(b.n, a.d))
RatEq(a, b) == BigCmp(BigMul(a.n, b.d), BigMul(b.n, a.d)) = 0
RatDiv(a, b) == Rat(BigMul(a.n, b.d), BigMul(a.d, b.n))
RatMin(a, b) == IF RatLess(b, a) THEN b ELSE a
RatMax(a, b) == IF RatLess(a, b) THEN b ELSE a

RECURSIVE LowZeros(_, _)
LowZeros(a, i) == IF i > Len(a) \/ a[i] # 0 THEN i - 1 ELSE LowZeros(a, i + 1)

\* the same fraction with the zero limbs common to n and d dropped
RatTrim(r) ==
  LET k == Min(LowZeros(r.n, 1), LowZeros(r.d, 1))
  IN  Rat(SubSeq(r.n, k + 1, Len(r.n)), SubSeq(r.d, k + 1, Len(r.d)))

(***************************************************************************)
(* Units.  Rates are fractions; a yield y is carried as 1 + y.              *)
(* Years are counted in half-years (the slider's step is 0.5), so          *)
(* years = yearsH / 2.                                                     *)
(***************************************************************************)
\* the growth factor of a yield of bps basis points, bps > -10000
GrowthOfBps(bps) == RatOf(10000 + bps, 10000)

\* Math.round(h * freq / 2) floored at 1: Math.round rounds halves up
Periods(yearsH, freq) == Max(1, (yearsH * freq + 1) \div 2)

\* 1 + ytm / freq, from the growth factor g = 1 + ytm
PeriodGrowth(g, freq) ==
  RatTrim(Rat(BigAdd(BigMul(BigOf(freq - 1), g.d), g.n), BigMul(BigOf(freq), g.d)))

\* sum for t = 1..k of 1 / base^t, as a numerator over base.n^k
RECURSIVE CouponSum(_, _)
CouponSum(base, k) ==
  IF k = 0 THEN << >>
  ELSE LET before == CouponSum(base, k - 1)
       IN  IF Known(before)
           THEN BigAdd(BigMul(base.n, before), BigPow(base.d, k))
           ELSE before

\* sum for t = 1..n of c / base^t, plus redemption / base^n
PresentValue(c, redemption, base, n) ==
  Rat(BigAdd(BigMul(c.n, CouponSum(base, n)),
             BigMul(BigMul(redemption, c.d), BigPow(base.d, n))),
      BigMul(c.d, BigPow(base.n, n)))

\* the coupon of a whole year paid every period
CouponPaymentAnnual(face, couponRate, freq) ==
  Rat(BigMul(couponRate.n, BigOf(face)), couponRate.d)

\* c = couponRate * face / freq
CouponPayment(face, couponRate, freq) ==
  Rat(BigMul(couponRate.n, BigOf(face)), BigMul(couponRate.d, BigOf(freq)))

priceBond(face, couponRate, g, yearsH, freq) ==
  PresentValue(CouponPayment(face, couponRate, freq), BigOf(face),
               PeriodGrowth(g, freq), Periods(yearsH, freq))

\* sum for t = 1..k of t * cf(t) / base^t as a numerator over base.n^k, where
\* cf(t) is cfLast for t = last and cf otherwise
RECURSIVE WeightedSum(_, _, _, _, _)
WeightedSum(base, cf, cfLast, last, k) ==
  IF k = 0 THEN << >>
  ELSE LET before == WeightedSum(base, cf, cfLast, last, k - 1)
       IN  IF Known(before)
           THEN BigAdd(BigMul(base.n, before),
                       BigMul(BigMul(BigOf(k), IF k = last THEN cfLast ELSE cf),
                              BigPow(base.d, k)))
           ELSE before

macaulayDuration(face, couponRate, g, yearsH, freq) ==
  LET n     == Periods(yearsH, freq)
      c     == CouponPayment(face, couponRate, freq)
      base  == PeriodGrowth(g, freq)
      price == priceBond(face, couponRate, g, yearsH, freq)
      \* num, with tYears = t / freq and every cash flow over c.d
      num   == Rat(WeightedSum(base, c.n, BigAdd(c.n, BigMul(BigOf(face), c.d)), n, n),
                   BigMul(BigMul(BigOf(freq), c.d), BigPow(base.n, n)))
  IN  RatDiv(num, price)

modifiedDuration(face, couponRate, g, yearsH, freq) ==
  RatDiv(macaulayDuration(face, couponRate, g, yearsH, freq), PeriodGrowth(g, freq))

\* cy = (couponRate * face) / price
CurrentYield(face, couponRate, price) ==
  RatDiv(Rat(BigMul(couponRate.n, BigOf(face)), couponRate.d), price)

(***************************************************************************)
(* yieldToWorstApprox.  The bracket lo, hi and the midpoint are held as    *)
(* 1 + lo, 1 + hi, 1 + mid in units of 2^-120.                             *)
(***************************************************************************)
FracBits == 120
One == ShiftLeft(<<1>>, FracBits)
Two == ShiftLeft(<<1>>, FracBits + 1)
Iterations == 60

\* the double written 0.99
Double099 == RoundDouble(BigDivSmall(BigMul(One, BigOf(99)), 100))
\* let lo = -0.99, hi = 1.0
Lo0 == BigSub(One, Double099)
Hi0 == Two

\* (lo + hi) / 2 in doubles: the sum is rounded, the halving is exact
Midpoint(lo, hi) ==
  LET s == BigAdd(lo, hi)
  IN  IF Known(s) /\ BigLeq(Two, s)
      THEN BigAdd(One, ShiftRight(RoundDouble(BigSub(s, Two)), 1))
      ELSE BigSub(One, ShiftRight(RoundDouble(BigSub(Two, s)), 1))

\* 1 + r in doubles, as a fraction
RateGrowth(mid) == RatTrim(Rat(RoundDouble(mid), One))

\* pv > target at the candidate rate
PvAboveTarget(c, callPrice, n, target, mid) ==
  LET base == RateGrowth(mid)
      pv   == PresentValue(c, BigOf(callPrice), base, n)
  IN  Known(base.n) /\ Known(pv.n) /\ RatLess(target, pv)

\* the loop body with the two branches exchanged
BisectStepSwapped(c, callPrice, n, target, lo, hi) ==
  LET mid == Midpoint(lo, hi)
  IN  IF Known(mid) /\ PvAboveTarget(c, callPrice, n, target, mid)
      THEN [lo |-> lo, hi |-> mid]
      ELSE [lo |-> mid, hi |-> hi]

\* one pass of the loop body: the new bracket
BisectStep(c, callPrice, n, target, lo, hi) ==
  LET mid == Midpoint(lo, hi)
  IN  IF Known(mid) /\ PvAboveTarget(c, callPrice, n, target, mid)
      THEN [lo |-> mid, hi |-> hi]
      ELSE [lo |-> lo, hi |-> mid]

\* the loop condition with an exit once the bracket is 2^-40 wide
BisectUntilClose(iter, lo, hi) ==
  iter < Iterations /\ BigLess(ShiftLeft(<<1>>, FracBits - 40), BigSub(hi, lo))

BisectContinue(iter, lo, hi) == iter < Iterations

RECURSIVE BisectRun(_, _, _, _, _, _, _)
\* the passes iter .. iter + count - 1 of the loop, from the bracket b
BisectRun(c, callPrice, n, target, iter, count, b) ==
  IF count = 0 THEN b
  ELSE IF count = 1
  THEN IF BisectContinue(iter, b.lo, b.hi)
       THEN BisectStep(c, callPrice, n, target, b.lo, b.hi)
       ELSE b
  ELSE LET h == count \div 2
           m == BisectRun(c, callPrice, n, target, iter, h, b)
       IN  IF Known(m.lo)
           THEN BisectRun(c, callPrice, n, target, iter + h, count - h, m)
           ELSE m

\* for (let iter = 0; iter < 60; iter++) { ... }
Bisect(c, callPrice, n, target) ==
  BisectRun(c, callPrice, n, target, 0, Iterations, [lo |-> Lo0, hi |-> Hi0])

\* 1 + Math.max(-0.99, Math.pow(1 + rMid, freq) - 1)
YieldToCall(lo, hi, freq) ==
  LET rMid == Midpoint(lo, hi)
      base == RateGrowth(rMid)
  IN  RatMax(Rat(Lo0, One), Rat(BigPow(base.n, freq), BigPow(base.d, freq)))

yieldToWorstApprox(face, couponRate, g, yearsH, freq, callable, callYearsH, callPrice) ==
  IF ~callable THEN g
  ELSE LET marketPrice == priceBond(face, couponRate, g, yearsH, freq)
           n == Periods(callYearsH, freq)
           c == CouponPayment(face, couponRate, freq)
       IN  IF Known(marketPrice.n) /\ Known(c.n)
           THEN LET b == Bisect(c, callPrice, n, marketPrice)
                IN  RatMin(g, YieldToCall(b.lo, b.hi, freq))
           ELSE g

(***************************************************************************)
(* Calls.  A call of an engine function is a record of the function's name *)
(* and its arguments; Value gives what the call returns.  The functions    *)
(* are pure, so equal calls return equal values.  In a call                *)
(*   - couponPct and ytmPct count tenths of a percent (the sliders' step), *)
(*     so couponRate = couponPct / 1000;                                   *)
(*   - a yield given as a number counts basis points (0.0001);             *)
(*   - years and callYears count half-years.                               *)
(***************************************************************************)
BpsPerTenth == 10
TenthsPerUnit == 1000

\* a yield passed as a number
Given(bps) == [fn |-> "number", bps |-> bps]

YtwCall(face, couponPct, bps, years, freq, callable, callYears, callPrice) ==
  [fn |-> "yieldToWorstApprox", face |-> face, couponRate |-> couponPct,
   ytm |-> bps, years |-> years, freq |-> freq, callable |-> callable,
   callYears |-> callYears, callPrice |-> callPrice]

\* ytm is a yield: Given(bps) or a YtwCall
EngineCall(fn, face, couponPct, ytm, years, freq) ==
  [fn |-> fn, face |-> face, couponRate |-> couponPct, ytm |-> ytm,
   years |-> years, freq |-> freq]

\* cy = (couponRate * face) / price
CurrentYieldOf(face, couponPct, price) ==
  [fn |-> "cy", face |-> face, couponRate |-> couponPct, price |-> price]

CouponRate(couponPct) == RatOf(couponPct, TenthsPerUnit)

\* the growth factor 1 + y of a yield
YieldValue(y) ==
  IF y.fn = "number" THEN GrowthOfBps(y.bps)
  ELSE yieldToWorstApprox(y.face, CouponRate(y.couponRate), GrowthOfBps(y.ytm),
                          y.years, y.freq, y.callable, y.callYears, y.callPrice)

\* what the call returns when its yield argument has the growth factor g
ValueAt(call, g) ==
  IF call.fn = "priceBond"
  THEN priceBond(call.face, CouponRate(call.couponRate), g, call.years, call.freq)
  ELSE IF call.fn = "macaulayDuration"
  THEN macaulayDuration(call.face, CouponRate(call.couponRate), g, call.years, call.freq)
  ELSE modifiedDuration(call.face, CouponRate(call.couponRate), g, call.years, call.freq)

\* the call that gives the yield a call is evaluated at
YieldOf(call) ==
  IF call.fn \in {"number", "yieldToWorstApprox"} THEN call
  ELSE IF call.fn = "cy" THEN call.price.ytm
  ELSE call.ytm

\* the engine call whose value the call needs
EngineOf(call) == IF call.fn = "cy" THEN call.price ELSE call

\* (face * couponRate) / price for a current-yield call, the value itself
\* for any other call
CurrentYieldAt(call, v) ==
  IF call.fn = "cy" THEN CurrentYield(call.face, CouponRate(call.couponRate), v) ELSE v

\* what the call returns when its yield has the growth factor g, with g
ResultAt(call, g) ==
  IF Known(g.n) /\ call.fn \notin {"number", "yieldToWorstApprox"}
  THEN [rate |-> g, value |-> RatTrim(CurrentYieldAt(call, ValueAt(EngineOf(call), g)))]
  ELSE [rate |-> g, value |-> g]

Result(call) == ResultAt(call, YieldValue(YieldOf(call)))

Value(call) == Result(call).value

(***************************************************************************)
(* The recompute of BondAssessmentTool (the useMemo callback).             *)
(***************************************************************************)
\* the call date without the cap at years
CallYearsUncapped(years) == Max(4, 2 * ((years + 2) \div 4))

\* Math.min(years, Math.max(2, Math.round(years / 2))), in half-years
CallYears(years) == Min(years, Max(4, 2 * ((years + 2) \div 4)))

FirstBps == -200
LastBps == 200
BpsStep == 10
FloorBps == 1

\* the sampled yield without the floor
GridYieldUnfloored(ytm, bps) == ytm + bps

\* Math.max(0.0001, ytm + bps / 10000), in basis points
GridYield(ytm, bps) == Max(FloorBps, ytm + bps)

\* one pass of the loop body: the point pushed
GridPoint(face, couponPct, ytm, years, freq, callable, bps) ==
  LET y       == GridYield(ytm, bps)
      p       == EngineCall("priceBond", face, couponPct, Given(y), years, freq)
      ytwGrid == YtwCall(face, couponPct, y, years, freq, callable,
                         CallYears(years), face)
  IN  [yld |-> y, Price |-> p,
       PriceCallable |-> IF callable
                         THEN EngineCall("priceBond", face, couponPct, ytwGrid, years, freq)
                         ELSE p]

\* for (let bps = -200; bps <= 200; bps += 10)
GridOffsets == {b \in FirstBps..LastBps : (b - FirstBps) % BpsStep = 0}
OffsetAt(k) == FirstBps + BpsStep * (k - 1)

Recompute(face, couponPct, ytmPct, years, freq, callable) ==
  LET ytm   == BpsPerTenth * ytmPct
      price == EngineCall("priceBond", face, couponPct, Given(ytm), years, freq)
  IN  [price  |-> price,
       Dmac   |-> EngineCall("macaulayDuration", face, couponPct, Given(ytm), years, freq),
       Dmod   |-> EngineCall("modifiedDuration", face, couponPct, Given(ytm), years, freq),
       cy     |-> CurrentYieldOf(face, couponPct, price),
       ytw    |-> YtwCall(face, couponPct, ytm, years, freq, callable,
                          CallYears(years), face),
       points |-> [k \in 1..Cardinality(GridOffsets) |->
                     GridPoint(face, couponPct, ytm, years, freq, callable, OffsetAt(k))]]

(***************************************************************************)
(* State.                                                                  *)
(*   ui        the component's useState values                             *)
(*   computed  the value held by useMemo: the calls whose results it holds *)
(*   call      one activation of yieldToWorstApprox, statement by statement*)
(*   run       one activation of the useMemo callback, pass by pass, with  *)
(*             the values of its calls                                     *)
(***************************************************************************)
VARIABLES ui, computed, call, run

vars == <<ui, computed, call, run>>

Idle == [pc |-> "idle"]

(***************************************************************************)
(* BondAssessmentTool: state, setters and render.                          *)
(***************************************************************************)
\* the values the controls are moved to
FaceInputs == {1000, 1050}
CouponPctInputs == {50, 51}
YtmPctInputs == {50, 49}
YearsInputs == {20, 1}
FreqOptions == {1, 2, 4, 12}
BondTypeOptions == {"treasury", "corporate", "muni"}

InitialUi ==
  [face |-> 1000, couponPct |-> 50, ytmPct |-> 50, years |-> 20, freq |-> 2,
   bondType |-> "corporate", callable |-> FALSE, putable |-> FALSE,
   sinking |-> FALSE, convertible |-> FALSE]

\* a dependency list that leaves callable out
DepsWithoutCallable(u) == <<u.face, u.couponPct, u.ytmPct, u.years, u.freq>>

\* the dependency list of useMemo
Deps(u) == <<u.face, u.couponPct, u.ytmPct, u.years, u.freq, u.callable>>

RecomputeOf(u) == Recompute(u.face, u.couponPct, u.ytmPct, u.years, u.freq, u.callable)

\* a state change and the render that follows it: useMemo calls its callback
\* when an entry of the dependency list differs from the previous render's
Render(next) ==
  /\ ui' = next
  /\ computed' = IF Deps(next) # Deps(ui) THEN RecomputeOf(next) ELSE computed
  /\ UNCHANGED <<call, run>>

setFace(v) == Render([ui EXCEPT !.face = v])
setCouponPct(v) == Render([ui EXCEPT !.couponPct = v])
setYtmPct(v) == Render([ui EXCEPT !.ytmPct = v])
setYears(v) == Render([ui EXCEPT !.years = v])
setFreq(o) == Render([ui EXCEPT !.freq = o])
setBondType(o) == Render([ui EXCEPT !.bondType = o])
setCallable(v) == Render([ui EXCEPT !.callable = v])
\* the Putable checkbox wired to the callable flag
setPutableAsCallable(v) == Render([ui EXCEPT !.callable = v])
setPutable(v) == Render([ui EXCEPT !.putable = v])
setSinking(v) == Render([ui EXCEPT !.sinking = v])
setConvertible(v) == Render([ui EXCEPT !.convertible = v])

ChangeFace == \E v \in FaceInputs : setFace(v)
ChangeCouponPct == \E v \in CouponPctInputs : setCouponPct(v)
ChangeYtmPct == \E v \in YtmPctInputs : setYtmPct(v)
ChangeYears == \E v \in YearsInputs : setYears(v)
ChangeFreq == \E o \in FreqOptions : setFreq(o)
ChangeBondType == \E o \in BondTypeOptions : setBondType(o)
ToggleCallable == setCallable(~ui.callable)
TogglePutable == setPutable(~ui.putable)
ToggleSinking == setSinking(~ui.sinking)
ToggleConvertible == setConvertible(~ui.convertible)

\* the sliders' ranges: ytmPct in tenths of a percent, years in half-years
MinYtmPct == 0
MaxYtmPct == 200
MinYears == 1
MaxYears == 80
SlideYtmPct == \E v \in MinYtmPct..MaxYtmPct : setYtmPct(v)
SlideYears == \E v \in MinYears..MaxYears : setYears(v)

(***************************************************************************)
(* yieldToWorstApprox, statement by statement.                             *)
(***************************************************************************)
\* the entry without the callable guard
YtwEnterUnguarded ==
  /\ call.pc = "call"
  /\ LET a == call.args
         g == GrowthOfBps(a.ytm)
     IN  call' = [pc |-> "loop", args |-> a, iter |-> 0,
                  marketPrice |-> RatTrim(priceBond(a.face, CouponRate(a.couponRate),
                                                    g, a.years, a.freq)),
                  n  |-> Periods(a.callYears, a.freq),
                  c  |-> CouponPayment(a.face, CouponRate(a.couponRate), a.freq),
                  lo |-> Lo0, hi |-> Hi0]
  /\ UNCHANGED <<ui, computed, run>>

\* function entry to the loop head: the guard and the locals
YtwEnter ==
  /\ call.pc = "call"
  /\ LET a == call.args
         g == GrowthOfBps(a.ytm)
     IN  call' = IF ~a.callable
                 THEN [pc |-> "done", args |-> a, iter |-> 0, result |-> g]
                 ELSE [pc |-> "loop", args |-> a, iter |-> 0,
                       marketPrice |-> RatTrim(priceBond(a.face, CouponRate(a.couponRate),
                                                         g, a.years, a.freq)),
                       n  |-> Periods(a.callYears, a.freq),
                       c  |-> CouponPayment(a.face, CouponRate(a.couponRate), a.freq),
                       lo |-> Lo0, hi |-> Hi0]
  /\ UNCHANGED <<ui, computed, run>>

\* one pass of the for loop
YtwIterate ==
  /\ call.pc = "loop"
  /\ BisectContinue(call.iter, call.lo, call.hi)
  /\ LET b == BisectStep(call.c, call.args.callPrice, call.n, call.marketPrice,
                         call.lo, call.hi)
     IN  call' = [call EXCEPT !.lo = b.lo, !.hi = b.hi, !.iter = @ + 1]
  /\ UNCHANGED <<ui, computed, run>>

\* loop exit to the return
YtwReturn ==
  /\ call.pc = "loop"
  /\ ~BisectContinue(call.iter, call.lo, call.hi)
  /\ call' = [pc |-> "done", args |-> call.args, iter |-> call.iter,
              lo |-> call.lo, hi |-> call.hi,
              result |-> RatMin(GrowthOfBps(call.args.ytm),
                                YieldToCall(call.lo, call.hi, call.args.freq))]
  /\ UNCHANGED <<ui, computed, run>>

\* the calls examined
MaxCallHalfYears == 5
CallableInputs ==
  {YtwCall(1000, cp, y, h, f, TRUE, CallYears(h), 1000) :
     cp \in {0, 50}, y \in {0, 400, 490, 600}, h \in {2, MaxCallHalfYears}, f \in {1, 2}}
\* no rate of the search interval reprices these
RootlessInputs ==
  {YtwCall(1000, 50, 30000, 2, 1, TRUE, 2, 1000),
   YtwCall(1000, 50, -9950, 2, 1, TRUE, 2, 1000)}
PlainInputs ==
  {YtwCall(face, cp, y, h, f, FALSE, cy, cprice) :
     face \in {100, 1000}, cp \in {0, 50}, y \in {-50, 0, 490}, h \in {1, MaxCallHalfYears},
     f \in FreqOptions, cy \in {1, 4, 12}, cprice \in {0, 1000}}
CallInputs == CallableInputs \cup RootlessInputs \cup PlainInputs

InitCall ==
  /\ ui = InitialUi
  /\ computed = RecomputeOf(InitialUi)
  /\ call \in {[pc |-> "call", args |-> a] : a \in CallInputs}
  /\ run = Idle

NextCall == YtwEnter \/ YtwIterate \/ YtwReturn

SpecCall == InitCall /\ [][NextCall]_vars

(***************************************************************************)
(* The useMemo callback, pass by pass, with the values its calls return.   *)
(***************************************************************************)
\* the calls of the callback before the loop, in the order it makes them
MetricCalls(m) == <<m.price, m.Dmac, m.Dmod, m.cy, m.ytw>>

\* the callback's locals at the loop's entry, v the values of MetricCalls
AtLoop(args, v) ==
  [pc |-> "loop", args |-> args,
   price |-> v[1], Dmac |-> v[2], Dmod |-> v[3], cy |-> v[4], ytw |-> v[5],
   bps |-> FirstBps, points |-> << >>]

\* the callback up to the loop: price, Dmac, Dmod, cy, ytw
RunMetrics ==
  /\ run.pc = "begin"
  /\ run' = AtLoop(run.args,
                   [k \in 1..5 |-> Value(MetricCalls(RecomputeOf(run.args))[k])])
  /\ UNCHANGED <<ui, computed, call>>

\* the point pushed, p the result of pt.Price and pc of pt.PriceCallable;
\* rate is the yield the callable estimate is priced at: ytwGrid when
\* callable, y otherwise
Pushed(pt, p, pc) ==
  [yld |-> pt.yld, Price |-> p.value, rate |-> pc.rate, PriceCallable |-> pc.value]

PushedOf(pt, v) == Pushed(pt, v[1], v[2])

PointCalls(pt) == <<pt.Price, pt.PriceCallable>>

GridPointOf(a, bps) ==
  GridPoint(a.face, a.couponPct, BpsPerTenth * a.ytmPct, a.years, a.freq, a.callable, bps)

\* one pass of the loop
RunPoint ==
  /\ run.pc = "loop"
  /\ run.bps <= LastBps
  /\ run' = [run EXCEPT
               !.points = Append(@, PushedOf(GridPointOf(run.args, run.bps),
                                             [k \in 1..2 |->
                                                Result(PointCalls(GridPointOf(run.args, run.bps))[k])])),
               !.bps = @ + BpsStep]
  /\ UNCHANGED <<ui, computed, call>>

\* loop exit to the return
RunReturn ==
  /\ run.pc = "loop"
  /\ run.bps > LastBps
  /\ run' = [run EXCEPT !.pc = "done"]
  /\ UNCHANGED <<ui, computed, call>>

\* the input states examined
RunArgs(face, couponPct, ytmPct, years, freq, callable) ==
  [face |-> face, couponPct |-> couponPct, ytmPct |-> ytmPct, years |-> years,
   freq |-> freq, callable |-> callable]
MaxRunHalfYears == 3
ParRuns ==
  {RunArgs(face, pct, pct, h, f, FALSE) :
     face \in {100, 1000}, pct \in {0, 50}, h \in {1, MaxRunHalfYears}, f \in FreqOptions}
PlainRuns ==
  {RunArgs(1000, 50, y, h, 2, FALSE) : y \in {0, 19, 40}, h \in {1, MaxRunHalfYears}}
CallableRuns ==
  {RunArgs(1000, 50, 0, 5, 1, TRUE), RunArgs(1000, 50, 50, 2, 2, TRUE)}
RunInputs == ParRuns \cup PlainRuns \cup CallableRuns

InitRun ==
  /\ ui = InitialUi
  /\ computed = RecomputeOf(InitialUi)
  /\ call = Idle
  /\ run \in {[pc |-> "begin", args |-> a] : a \in RunInputs}

NextRun == RunMetrics \/ RunPoint \/ RunReturn

SpecRun == InitRun /\ [][NextRun]_vars

Init ==
  /\ ui = InitialUi
  /\ computed = RecomputeOf(InitialUi)
  /\ call = Idle
  /\ run = Idle

Next ==
  \/ ChangeFace
  \/ ChangeCouponPct
  \/ ChangeYtmPct
  \/ ChangeYears
  \/ ChangeFreq
  \/ ChangeBondType
  \/ ToggleCallable
  \/ TogglePutable
  \/ ToggleSinking
  \/ ToggleConvertible

Spec == Init /\ [][Next]_vars

\* the yield slider over its whole range
NextYield == SlideYtmPct \/ ToggleCallable

SpecYield == Init /\ [][NextYield]_vars

\* the years slider over its whole range, with every frequency
NextYears == SlideYears \/ ChangeFreq \/ ToggleCallable

SpecYears == Init /\ [][NextYears]_vars

(***************************************************************************)
(* Claims about yieldToWorstApprox (SpecCall, SpecCallFair).               *)
(***************************************************************************)
InCall == call.pc # "idle"
Returned == call.pc = "done"
Width(lo, hi) == BigSub(hi, lo)

\* C2, as stated: a returned callable call with callPrice = face,
\* 0 <= ytm < couponRate, a supported freq and callYears <= years has a
\* result strictly below ytm.
C2_YtwBelowYtm ==
  (/\ Returned
   /\ call.args.callable
   /\ call.args.callPrice = call.args.face
   /\ call.args.face > 0
   /\ 0 <= call.args.ytm
   /\ call.args.ytm < BpsPerTenth * call.args.couponRate
   /\ call.args.freq \in FreqOptions
   /\ call.args.callYears <= call.args.years)
  => RatLess(call.result, GrowthOfBps(call.args.ytm))

\* C3: a call with callable = false never enters the loop, and returns with
\* no pass performed and with exactly the ytm it was passed.
C3_PlainReturnsYtm ==
  (InCall /\ ~call.args.callable)
  => /\ call.pc \in {"call", "done"}
     /\ Returned => /\ call.iter = 0
                    /\ call.result = RatOf(10000 + call.args.ytm, 10000)

C3_Witness ==
  /\ Returned
  /\ ~call.args.callable
  /\ call.args.callYears > call.args.years
  /\ call.args.callPrice = 0
  /\ call.args.ytm < 0
  /\ call.result = RatOf(10000 + call.args.ytm, 10000)

\* C6: a call with callable = true enters the loop with no pass performed;
\* at the loop head it has performed at most 60 passes, and its next step is
\* one more pass if it has performed fewer than 60 and the return if it has
\* performed 60; so it returns, after exactly 60 passes.
C6_SixtyPasses ==
  /\ [](InCall /\ call.args.callable
          => /\ call.pc \in {"call", "loop", "done"}
             /\ call.pc = "loop" => call.iter \in 0..60
             /\ Returned => call.iter = 60)
  /\ [][call.pc = "call" /\ call.args.callable
          => call'.pc = "loop" /\ call'.iter = 0]_vars
  /\ [][call.pc = "loop"
          => IF call.iter < 60
             THEN call'.pc = "loop" /\ call'.iter = call.iter + 1
             ELSE call'.pc = "done" /\ call'.iter = 60]_vars

C6_Witness ==
  /\ Returned
  /\ call.args.callable
  /\ call.iter = 60
  /\ call.lo = call.hi

\* C8, as stated: at every pass lo < hi and the midpoint is strictly
\* between them, and after the 60 passes the width is the initial width
\* divided by 2^60.
C8_HalvedEachPass ==
  call.pc = "loop"
  => /\ BigLeq(Lo0, call.lo) /\ BigLess(call.lo, call.hi) /\ BigLeq(call.hi, Hi0)
     /\ call.iter < 60 => /\ BigLess(call.lo, Midpoint(call.lo, call.hi))
                          /\ BigLess(Midpoint(call.lo, call.hi), call.hi)
     /\ call.iter = 60 => ShiftLeft(Width(call.lo, call.hi), 60) = Width(Lo0, Hi0)

\* the bracket at a loop head
C8_Bracket ==
  call.pc = "loop"
  => /\ BigLeq(Lo0, call.lo) /\ BigLeq(call.lo, call.hi) /\ BigLeq(call.hi, Hi0)
     /\ call.iter < 60
          => LET mid == Midpoint(call.lo, call.hi)
             IN  /\ BigLeq(call.lo, mid) /\ BigLeq(mid, call.hi)
                 /\ BigLess(<< >>, RateGrowth(mid).n)
     /\ call.iter = 60
          => BigLeq(Width(call.lo, call.hi), ShiftLeft(<<1>>, FracBits - 53))

\* one pass
C8_Pass ==
  (call.pc = "loop" /\ call'.pc = "loop" /\ call'.iter = call.iter + 1)
  => LET mid == Midpoint(call.lo, call.hi)
     IN  /\ IF PvAboveTarget(call.c, call.args.callPrice, call.n, call.marketPrice, mid)
            THEN call'.lo = mid /\ call'.hi = call.hi
            ELSE call'.hi = mid /\ call'.lo = call.lo
         /\ BigLeq(Width(call'.lo, call'.hi), Width(call.lo, call.hi))

\* C8, amended: at every pass -0.99 <= lo <= mid <= hi <= 1.0 with mid the
\* rounded midpoint, so 1 + r > 0; exactly one bound moves to the midpoint
\* (lo when the candidate PV exceeds the target, hi otherwise) and the other
\* is unchanged; the width never grows, and after the 60 passes it is at most
\* 2^-53.
C8_BracketNarrows == []C8_Bracket /\ [][C8_Pass]_vars

\* the midpoint of adjacent doubles is one of them: the last passes of this
\* call do not halve the bracket
C8_Witness ==
  /\ call.pc = "loop"
  /\ call.iter = 60
  /\ BigLess(call.lo, call.hi)
  /\ Midpoint(call.lo, call.hi) \in {call.lo, call.hi}
  /\ BigLess(Width(Lo0, Hi0), ShiftLeft(Width(call.lo, call.hi), 60))

(***************************************************************************)
(* Claims about the recompute's values (SpecRun).                          *)
(***************************************************************************)
\* C7: when the coupon rate equals ytm, the price the callback computes is
\* face and the current yield it computes is the coupon rate.
C7_ParPrice ==
  (run.pc \in {"loop", "done"} /\ run.args.couponPct = run.args.ytmPct)
  => /\ RatEq(run.price, RatOf(run.args.face, 1))
     /\ RatEq(run.cy, RatOf(run.args.couponPct, 1000))

C7_Witness ==
  /\ run.pc = "loop"
  /\ run.args.couponPct = run.args.ytmPct
  /\ run.args.couponPct > 0
  /\ run.args.freq = 12
  /\ RatEq(run.price, RatOf(run.args.face, 1))

\* C9, as stated: every yield at which a pushed point was priced is at
\* least 0.0001, the callable estimate's included.
C9_YieldsFloored ==
  run.pc \in {"loop", "done"}
  => \A k \in 1..Len(run.points) :
       /\ run.points[k].yld >= 1
       /\ RatLeq(RatOf(10001, 10000), run.points[k].rate)

(***************************************************************************)
(* Claims about the component (Spec).                                      *)
(***************************************************************************)
\* C4: the value useMemo holds is what the callback returns for the
\* current inputs: its calls are the calls of the current input state.
C4_MemoFresh == computed = RecomputeOf(ui)

C4_Witness ==
  /\ ui.face # InitialUi.face
  /\ ui.couponPct # InitialUi.couponPct
  /\ ui.ytmPct # InitialUi.ytmPct
  /\ ui.years # InitialUi.years
  /\ ui.freq # InitialUi.freq
  /\ ui.callable
  /\ computed = RecomputeOf(ui)

\* a step that changes only the field f of ui, and not computed
OnlyField(f) ==
  /\ computed' = computed
  /\ \A g \in DOMAIN ui \ {f} : ui'[g] = ui[g]

\* C5: toggling Putable, Sinking Fund or Convertible, or choosing a bond
\* type, leaves computed and every other input unchanged.
C5_ProvisionsInert ==
  [][/\ TogglePutable => OnlyField("putable")
     /\ ToggleSinking => OnlyField("sinking")
     /\ ToggleConvertible => OnlyField("convertible")
     /\ ChangeBondType => OnlyField("bondType")]_vars

C5_Witness ==
  /\ ui.putable
  /\ ui.sinking
  /\ ui.convertible
  /\ ui.bondType = "muni"
  /\ ui.callable
  /\ ui.years = 1
  /\ computed = RecomputeOf(ui)

(***************************************************************************)
(* Claims about the grid yields (SpecYield).                               *)
(***************************************************************************)
\* C1, as stated: 41 points whose yields strictly increase and are
\* symmetric around ytm, with the one of index 20 at ytm.
C1_StrictSymmetric ==
  LET pts == computed.points
      ytm == 10 * ui.ytmPct
  IN  /\ Len(pts) = 41
      /\ \A k \in 1..40 : pts[k].yld < pts[k + 1].yld
      /\ \A k \in 1..41 : pts[k].yld - ytm = ytm - pts[42 - k].yld
      /\ pts[21].yld = ytm

\* C1, amended: 41 points, in the order of the offsets -200, -190, .., 200,
\* each at max(0.0001, ytm + bps / 10000); the yields never decrease; they
\* strictly increase when ytm >= 2.0%, and when ytm >= 2.1% they are
\* symmetric around ytm with the one of index 20 at ytm.
C1_GridYields ==
  LET pts == computed.points
      ytm == 10 * ui.ytmPct
  IN  /\ Len(pts) = 41
      /\ \A k \in 1..41 :
           LET bps == 10 * (k - 1) - 200
           IN  /\ pts[k].yld = (IF ytm + bps >= 1 THEN ytm + bps ELSE 1)
               /\ pts[k].Price.ytm = Given(pts[k].yld)
      /\ \A k \in 1..40 : pts[k].yld <= pts[k + 1].yld
      /\ ui.ytmPct >= 20 => \A k \in 1..40 : pts[k].yld < pts[k + 1].yld
      /\ ui.ytmPct >= 21
           => /\ \A k \in 1..41 : pts[k].yld - ytm = ytm - pts[42 - k].yld
              /\ pts[21].yld = ytm

\* ytm = 1.9%: the offsets -200 and -190 are both floored
C1_Witness ==
  /\ ui.ytmPct = 19
  /\ ui.callable
  /\ computed.points[1].yld = 1
  /\ computed.points[2].yld = 1
  /\ computed.points[3].yld = 10

(***************************************************************************)
(* Claims about the call date (SpecYears).                                 *)
(***************************************************************************)
\* C10: the callYears passed to yieldToWorstApprox, by the ytw call and by
\* every grid call, is min(years, max(2, round(years / 2))); it is at most
\* years, and its period count is at least 1 and at most the period count
\* of years.
C10_CallDate ==
  LET h  == ui.years
      \* k = round(h / 4), halves rounded up
      k  == CHOOSE j \in 0..h : 4 * j - 2 <= h /\ h < 4 * j + 2
      cy == IF h <= (IF 2 * k >= 4 THEN 2 * k ELSE 4) THEN h
            ELSE IF 2 * k >= 4 THEN 2 * k ELSE 4
      nCall == IF (cy * ui.freq + 1) \div 2 >= 1 THEN (cy * ui.freq + 1) \div 2 ELSE 1
      nMat  == IF (h * ui.freq + 1) \div 2 >= 1 THEN (h * ui.freq + 1) \div 2 ELSE 1
  IN  /\ computed.ytw.callYears = cy
      /\ computed.ytw.years = h
      /\ ui.callable => \A p \in 1..Len(computed.points) :
                          /\ computed.points[p].PriceCallable.ytm.callYears = cy
                          /\ computed.points[p].PriceCallable.ytm.years = h
      /\ computed.ytw.callYears <= computed.ytw.years
      /\ Periods(computed.ytw.callYears, ui.freq) = nCall
      /\ Periods(computed.ytw.years, ui.freq) = nMat
      /\ 1 <= nCall
      /\ nCall <= nMat

\* years = 1.5: the call date is capped at years
C10_Witness ==
  /\ ui.years = 3
  /\ ui.freq = 12
  /\ ui.callable
  /\ computed.ytw.callYears = 3
  /\ Periods(computed.ytw.callYears, ui.freq) = 18
====
